---- MODULE Spec2Model ----
(***************************************************************************)
(* Model of the task orchestrator of src/core/tasks/__init__.py            *)
(* (TaskOrchestrator: registry, bounded priority queue, worker threads,    *)
(* retry loop, history sink, scheduled entries and the scheduler thread),  *)
(* of the watchdog loop of src/scripts/watchdog.py (run_watchdog) and of   *)
(* the crawl loop of src/scripts/infinite_crawler.py (infinite_crawl).     *)
(***************************************************************************)
EXTENDS Integers, Sequences, FiniteSets, Bags, TLC

\* ------------------------------------------------------------------ bounds
\* Number of Task objects submit may create in one behaviour.
MaxTasks == 2
\* Number of Task objects submitted where the queue order is examined.
MaxQueued == 3
\* Largest reading of the wall clock (datetime.now()).
MaxClock == 1
\* Largest max_retries a caller passes to submit.
MaxRetries == 1
\* Largest num_workers / max_queue_size given to the constructor.
MaxWorkers == 2
MaxQueueSize == 2
\* Number of start() calls that spawn threads in one behaviour.
MaxStarts == 1
\* Number of Task objects submitted where shutdown is examined.
MaxStopTasks == 1
\* Largest interval_seconds a caller passes to schedule.
MaxInterval == 1
\* Number of schedule() calls in one behaviour.
MaxEntries == 2
\* Largest clock reading (in tick periods) where the scheduler is examined.
MaxSchedClock == 3
\* Number of Task objects the scheduler submits in one behaviour.
MaxRuns == 2
\* Number of check cycles of the watchdog in one behaviour.
MaxCycles == 5
\* Number of units of work the crawl loop starts in one behaviour.
MaxCrawls == 7
\* A crawl interval (in seconds) shorter than the default one.
ShortCrawlSeconds == 90
\* Largest limit a caller passes to get_task_history.
MaxLimit == 2
\* Largest max_retries and number of Task objects where the retry backoff is
\* examined.
MaxBackoffRetries == 3
MaxBackoffTasks == 1
\* Number of start() calls that pass the is_running test, and number of Task
\* objects submitted, where restarts are examined.
MaxRestarts == 2
MaxRestartTasks == 2
\* Number of Task objects submitted where the resumption after a stop is
\* examined.
MaxResumeTasks == 1
\* Number of Task objects alive at a time where a submission stream without
\* end is examined.
MaxStarveTasks == 2
\* Number of scheduled entries and last clock reading (in tick periods) where
\* the scheduler's shutdown is examined.
MaxStopEntries == 1
MaxStopClock == 2
\* --------------------------------------------------------------- constants
\* TaskPriority values.
LOW == 3
NORMAL == 2
HIGH == 1
CRITICAL == 0
Priorities == {CRITICAL, HIGH, NORMAL, LOW}

\* max_queue_size: int = 1000
DefaultQueueSize == 1000
\* submit: max_retries: int = 3
DefaultMaxRetries == 3

\* None
NULL == -1
\* An empty dict / an empty table.
EmptyMap == [k \in {} |-> NULL]

\* max_retries values callers pass (submit validates nothing).
RetryChoices == {-1} \cup (0 .. MaxRetries)
\* interval_seconds values callers pass to schedule; None is the default.
IntervalChoices == {NULL} \cup (1 .. MaxInterval)

VARIABLES
    now,             \* the wall clock read by datetime.now()
    num_workers,     \* self.num_workers
    max_queue_size,  \* maxsize of self.task_queue
    objs,            \* the Task objects created so far, by allocation order
    tasks,           \* self.tasks: id -> Task object
    task_queue,      \* self.task_queue: the heap list of the PriorityQueue
    putting,         \* Task objects whose submit is between line 182 and 183
    threads,         \* bag of live threads started by start()
    workers,         \* len(self.workers)
    is_running,      \* self.is_running
    shutdown_event,  \* self.shutdown_event
    stopping,        \* a stop() call is between line 390 and line 396
    history,         \* the task_history table: id -> row
    waiting,         \* ghost: the queued Task objects, in the order put returned
    starts,          \* ghost: number of start() calls that spawned threads
    entries,         \* the ScheduledTask objects created so far, by allocation order
    scheduled_tasks, \* self.scheduled_tasks: id -> ScheduledTask object
    services,        \* watchdog.py: the services dict of run_watchdog
    watchdog,        \* watchdog.py: position of run_watchdog in its loop
    events,          \* watchdog.py: what each check of a service logged and did
    crawler,         \* infinite_crawler.py: the state of infinite_crawl
    starting         \* start() calls between line 364 and line 368

\* The scheduler's state and the watchdog's state.
schedvars == <<entries, scheduled_tasks>>
wdvars == <<services, watchdog, events>>

vars == <<now, num_workers, max_queue_size, objs, tasks, task_queue, putting,
          threads, workers, is_running, shutdown_event, stopping, history,
          waiting, starts, entries, scheduled_tasks, services, watchdog,
          events, crawler, starting>>

Handles == 1 .. Len(objs)

\* ------------------------------------------------------------ Task objects
\* func.__name__ of the job callers pass.
FuncName == "job"

\* Task(...) as submit constructs it; calls and saved are ghost counts
\* of the job's invocations and of the task's history writes, waits a ghost
\* list of the arguments of the time.sleep calls of line 267.
NewTask(id, name, priority, max_retries) ==
    [id |-> id, name |-> name, priority |-> priority, status |-> "pending",
     error |-> FALSE, started_at |-> NULL, completed_at |-> NULL,
     retry_count |-> 0, max_retries |-> max_retries, result |-> FALSE,
     calls |-> 0, saved |-> 0, waits |-> << >>]

\* Task.__lt__
TaskLt(a, b) == objs[a].priority < objs[b].priority

\* Mutant: the larger priority ordinal is served first.
ItemLtReversed(a, b) == objs[a].priority > objs[b].priority

\* (priority.value, task) < (priority.value, task): tuple comparison; two Task
\* objects of the same priority compare by Task.__lt__, which is then false.
ItemLt(a, b) ==
    IF objs[a].priority # objs[b].priority
    THEN objs[a].priority < objs[b].priority
    ELSE TaskLt(a, b)

\* --------------------------------------------------------------- the heap
\* heapq._siftdown(heap, 0, pos) with positions counted from 1.
RECURSIVE SiftDown(_, _, _)
SiftDown(heap, pos, item) ==
    IF pos > 1 /\ ItemLt(item, heap[pos \div 2])
    THEN SiftDown([heap EXCEPT ![pos] = heap[pos \div 2]], pos \div 2, item)
    ELSE [heap EXCEPT ![pos] = item]

\* heapq._siftup(heap, pos): walk the smaller child up to a leaf, then sift
\* the displaced item down from there.
RECURSIVE SiftUp(_, _, _)
SiftUp(heap, pos, item) ==
    LET left == 2 * pos
        right == left + 1
        child == IF right <= Len(heap) /\ ~ItemLt(heap[left], heap[right])
                 THEN right ELSE left
    IN  IF left <= Len(heap)
        THEN SiftUp([heap EXCEPT ![pos] = heap[child]], child, item)
        ELSE SiftDown(heap, pos, item)

\* Mutant: queue.Queue in place of queue.PriorityQueue (put appends).
FifoPush(heap, item) == Append(heap, item)

\* heapq.heappush
HeapPush(heap, item) == SiftDown(Append(heap, item), Len(heap) + 1, item)

\* heapq.heappop: the item returned and the heap left
HeapTop(heap) == heap[1]
HeapPop(heap) ==
    LET last == heap[Len(heap)]
        rest == SubSeq(heap, 1, Len(heap) - 1)
    IN  IF rest = << >> THEN rest ELSE SiftUp(rest, 1, last)

\* 2 ** n
RECURSIVE Pow2(_)
Pow2(n) == IF n <= 0 THEN 1 ELSE 2 * Pow2(n - 1)

\* seq without the element x
Without(seq, x) == SelectSeq(seq, LAMBDA y : y # x)

\* PriorityQueue.full(): maxsize <= 0 means unbounded
QueueFull == max_queue_size > 0 /\ Len(task_queue) >= max_queue_size

\* ---------------------------------------------------------------- threads
Thread(kind, pc, task) == [kind |-> kind, pc |-> pc, task |-> task]
Live == BagToSet(threads)
Replace(t, u) == (threads (-) SetToBag({t})) (+) SetToBag({u})
WorkersAt(pc) == {t \in Live : t.kind = "worker" /\ t.pc = pc}

\* ---------------------------------------------------------------- watchdog
\* watchdog.py: MAX_RESTART_ATTEMPTS = int(os.getenv("MAX_RESTART_ATTEMPTS", "3"))
MAX_RESTART_ATTEMPTS == 3

\* run_watchdog, lines 153-166: the services dict, in its order.
ServiceNames == <<"api", "database">>
InitServices ==
    [s \in {"api", "database"} |->
        [restart_cmd |-> (s = "api"), restart_count |-> 0]]
\* run_watchdog before its first loop test (line 168); i is the position of
\* the for loop of line 172 in ServiceNames, probed what the last probe did.
InitWatchdog ==
    [pc |-> "while", i |-> 0, cycle |-> 0, running |-> TRUE, probed |-> "none"]

\* What a probe's request or query does.
ProbeOutcomes == {"healthy", "unhealthy", "raises"}

\* Mutant: the probe's except clause returns True.
CheckHealthTruthy(outcome) == outcome # "unhealthy"

\* check_api_health, check_database_health (and ServiceMonitor.check_health):
\* True when the request or query succeeded, False when it failed or raised.
CheckHealth(outcome) == outcome = "healthy"

\* Mutant: the restart test of line 189 stops one attempt early.
HandlingEarlyStop(service, is_healthy, spawn_ok) ==
    IF is_healthy
    THEN IF service.restart_count > 0 THEN "recovered" ELSE "none"
    ELSE IF service.restart_cmd
            /\ service.restart_count < MAX_RESTART_ATTEMPTS - 1
         THEN IF spawn_ok THEN "restarted" ELSE "spawn_failed"
         ELSE IF service.restart_count >= MAX_RESTART_ATTEMPTS
              THEN "escalated"
              ELSE "none"

\* Mutant: line 189 does not test restart_cmd.
HandlingAnyService(service, is_healthy, spawn_ok) ==
    IF is_healthy
    THEN IF service.restart_count > 0 THEN "recovered" ELSE "none"
    ELSE IF service.restart_count < MAX_RESTART_ATTEMPTS
         THEN IF spawn_ok THEN "restarted" ELSE "spawn_failed"
         ELSE IF service.restart_count >= MAX_RESTART_ATTEMPTS
              THEN "escalated"
              ELSE "none"

\* run_watchdog, lines 175-217: what one check of a service logs and does.
\* "recovered": line 177; "restarted": Popen of line 193 returned;
\* "spawn_failed": it raised (line 208); "escalated": line 211.
Handling(service, is_healthy, spawn_ok) ==
    IF is_healthy
    THEN IF service.restart_count > 0 THEN "recovered" ELSE "none"
    ELSE IF service.restart_cmd
            /\ service.restart_count < MAX_RESTART_ATTEMPTS
         THEN IF spawn_ok THEN "restarted" ELSE "spawn_failed"
         ELSE IF service.restart_count >= MAX_RESTART_ATTEMPTS
              THEN "escalated"
              ELSE "none"

\* lines 184 and 199: the service's counter after the check.
Counted(service, is_healthy, did) ==
    [service EXCEPT !.restart_count =
        IF is_healthy THEN 0
        ELSE IF did = "restarted" THEN @ + 1
        ELSE @]

\* What no step of the watchdog changes: the orchestrator.
WatchdogFrame ==
    UNCHANGED <<now, num_workers, max_queue_size, objs, tasks, task_queue,
                putting, threads, workers, is_running, shutdown_event,
                stopping, history, waiting, starts, schedvars, crawler, starting>>

\* line 168: the loop test; a cycle begins or run_watchdog returns.
WatchdogLoop ==
    /\ watchdog.pc = "while"
    /\ watchdog' = IF watchdog.running
                   THEN [watchdog EXCEPT !.pc = "check", !.i = 1,
                                         !.cycle = @ + 1]
                   ELSE [watchdog EXCEPT !.pc = "stopped"]
    /\ UNCHANGED <<services, events>>
    /\ WatchdogFrame

\* lines 172-217: one turn of the for loop, for the service at position i.
WatchdogCheck(outcome, spawn_ok) ==
    /\ watchdog.pc = "check"
    /\ LET name == ServiceNames[watchdog.i]
           is_healthy == CheckHealth(outcome)
           did == Handling(services[name], is_healthy, spawn_ok)
       IN  /\ services' = [services EXCEPT
                              ![name] = Counted(@, is_healthy, did)]
           /\ events' = [events EXCEPT
                            ![name] = Append(@, [healthy |-> is_healthy,
                                                 did |-> did])]
    /\ watchdog' = IF watchdog.i < Len(ServiceNames)
                   THEN [watchdog EXCEPT !.i = @ + 1, !.probed = outcome]
                   ELSE [watchdog EXCEPT !.pc = "summary", !.probed = outcome]
    /\ WatchdogFrame

\* lines 219-221: the probes are called once more for the summary line.
WatchdogSummary ==
    /\ watchdog.pc = "summary"
    /\ watchdog' = [watchdog EXCEPT !.pc = "sleep"]
    /\ UNCHANGED <<services, events>>
    /\ WatchdogFrame

\* line 227: time.sleep(CHECK_INTERVAL_SECONDS) returns.
WatchdogSleep ==
    /\ watchdog.pc = "sleep"
    /\ watchdog' = [watchdog EXCEPT !.pc = "while"]
    /\ UNCHANGED <<services, events>>
    /\ WatchdogFrame

\* signal_handler, lines 45-49: SIGINT or SIGTERM arrives.
WatchdogSignal ==
    /\ watchdog.running
    /\ watchdog.pc # "stopped"
    /\ watchdog' = [watchdog EXCEPT !.running = FALSE]
    /\ UNCHANGED <<services, events>>
    /\ WatchdogFrame

\* ----------------------------------------------------------------- crawler
\* infinite_crawler.py: CRAWL_INTERVAL_HOURS (default "1", line 27) * 3600
DefaultCrawlSeconds == 3600
\* line 74
max_consecutive_errors == 5
\* line 116: the longest single sleep of the interval wait
SleepChunk == 60
\* line 132: min(300, 30 * (2 ** consecutive_errors))
BackoffBase == 30
BackoffCap == 300
\* line 137: time.sleep(3600)
CooldownSeconds == 3600

\* The crawl intervals (sleep_seconds, line 110) the environment configures.
CrawlIntervals == {0, ShortCrawlSeconds, DefaultCrawlSeconds}

Min(a, b) == IF a <= b THEN a ELSE b

\* The script before its configuration is read (line 27). sleep_left is
\* sleep_end - time.time(), arg the argument of the time.sleep call under way
\* or last made; cycle (units of work started) and flagged (where the loop
\* was when the signal arrived) are ghosts.
InitCrawler ==
    [pc |-> "import", running |-> TRUE, consecutive_errors |-> 0,
     sleep_seconds |-> NULL, sleep_left |-> 0, arg |-> 0,
     cycle |-> 0, flagged |-> "no"]

\* Mutant: the backoff has no cap.
BackoffUncapped(errors) == BackoffBase * Pow2(errors)

\* line 132
Backoff(errors) == Min(BackoffCap, BackoffBase * Pow2(errors))

\* lines 118-137: the except clause counts the error and calls time.sleep
\* with the backoff or with the cooldown.
Excepted(c) ==
    LET errors == c.consecutive_errors + 1
    IN  IF errors < max_consecutive_errors
        THEN [c EXCEPT !.consecutive_errors = errors, !.pc = "backoff",
                       !.arg = Backoff(errors)]
        ELSE [c EXCEPT !.consecutive_errors = errors, !.pc = "cooldown",
                       !.arg = CooldownSeconds]

\* What no step of the crawl loop changes: the orchestrator and the watchdog.
CrawlerFrame ==
    UNCHANGED <<now, num_workers, max_queue_size, objs, tasks, task_queue,
                putting, threads, workers, is_running, shutdown_event,
                stopping, history, waiting, starts, schedvars, wdvars,
                starting>>

\* lines 27 and 56-74: the configuration is read, the handlers are registered
\* and the counter set; infinite_crawl is at its first loop test.
CrawlerConfigure(sleep_seconds) ==
    /\ crawler.pc = "import"
    /\ crawler' = [crawler EXCEPT !.pc = "while",
                                  !.sleep_seconds = sleep_seconds]
    /\ CrawlerFrame

\* Mutant: the loop test is `while True`.
CrawlerLoopDeaf ==
    /\ crawler.pc = "while"
    /\ crawler' = [crawler EXCEPT !.pc = "crawl", !.cycle = @ + 1]
    /\ CrawlerFrame

\* line 76: the loop test; a unit of work begins or infinite_crawl returns.
CrawlerLoop ==
    /\ crawler.pc = "while"
    /\ crawler' = IF crawler.running
                  THEN [crawler EXCEPT !.pc = "crawl", !.cycle = @ + 1]
                  ELSE [crawler EXCEPT !.pc = "stopped"]
    /\ CrawlerFrame

\* lines 78-114 and 118: agent.crawl_all returns (the counter is reset and
\* sleep_end set) or raises.
CrawlerCrawl(ok) ==
    /\ crawler.pc = "crawl"
    /\ crawler' = IF ok
                  THEN [crawler EXCEPT !.consecutive_errors = 0,
                                       !.sleep_left = crawler.sleep_seconds,
                                       !.pc = "interval"]
                  ELSE Excepted(crawler)
    /\ CrawlerFrame

\* lines 115-116: the test of the inner loop and the call of time.sleep with
\* min(60, sleep_end - time.time()). late: the clock passes sleep_end between
\* the test and the second reading, the argument is negative and time.sleep
\* raises ValueError, which the except clause of line 118 takes.
CrawlerInterval(late) ==
    /\ crawler.pc = "interval"
    /\ crawler' = IF crawler.running /\ crawler.sleep_left > 0
                  THEN IF late THEN Excepted(crawler)
                       ELSE [crawler EXCEPT
                                !.pc = "chunk",
                                !.arg = Min(SleepChunk, crawler.sleep_left)]
                  ELSE [crawler EXCEPT !.pc = "while"]
    /\ CrawlerFrame

\* line 116: time.sleep returns; back to the test of line 115.
CrawlerChunk ==
    /\ crawler.pc = "chunk"
    /\ crawler' = [crawler EXCEPT !.pc = "interval",
                                  !.sleep_left = @ - crawler.arg]
    /\ CrawlerFrame

\* line 134: the backoff sleep returns; back to the test of line 76.
CrawlerBackoff ==
    /\ crawler.pc = "backoff"
    /\ crawler' = [crawler EXCEPT !.pc = "while"]
    /\ CrawlerFrame

\* lines 137-138: the cooldown sleep returns and the counter is reset.
CrawlerCooldown ==
    /\ crawler.pc = "cooldown"
    /\ crawler' = [crawler EXCEPT !.pc = "while", !.consecutive_errors = 0]
    /\ CrawlerFrame

\* signal_handler, lines 42-46: SIGINT or SIGTERM arrives.
CrawlerSignal ==
    /\ crawler.running
    /\ crawler.pc \notin {"import", "stopped"}
    /\ crawler' = [crawler EXCEPT !.running = FALSE, !.flagged = crawler.pc]
    /\ CrawlerFrame

\* ------------------------------------------------------------------- Init
\* TaskOrchestrator.__init__
Constructed(nw, qs) ==
    /\ now = 0
    /\ num_workers = nw
    /\ max_queue_size = qs
    /\ objs = << >>
    /\ tasks = EmptyMap
    /\ task_queue = << >>
    /\ putting = {}
    /\ threads = EmptyBag
    /\ workers = 0
    /\ is_running = FALSE
    /\ shutdown_event = FALSE
    /\ stopping = "no"
    /\ history = EmptyMap
    /\ waiting = << >>
    /\ starts = 0
    /\ entries = << >>
    /\ scheduled_tasks = EmptyMap
    /\ services = InitServices
    /\ watchdog = InitWatchdog
    /\ events = [s \in DOMAIN InitServices |-> << >>]
    /\ crawler = InitCrawler
    /\ starting = 0

Init == \E nw \in 1 .. MaxWorkers, qs \in 1 .. MaxQueueSize : Constructed(nw, qs)

\* The clock advances.
Tick ==
    /\ now < MaxClock
    /\ now' = now + 1
    /\ UNCHANGED <<num_workers, max_queue_size, objs, tasks, task_queue, putting,
                   threads, workers, is_running, shutdown_event, stopping,
                   history, waiting, starts,
                   schedvars, wdvars, crawler, starting>>

\* ----------------------------------------------------------------- submit
\* submit, lines 170-182: the id is the clock reading, the Task is built
\* (name=None: the job's __name__) and stored in the registry under that id.
SubmitBegin(priority, max_retries) ==
    /\ objs' = Append(objs, NewTask(now, FuncName, priority, max_retries))
    /\ tasks' = (now :> (Len(objs) + 1)) @@ tasks
    /\ putting' = putting \cup {Len(objs) + 1}
    /\ UNCHANGED <<now, num_workers, max_queue_size, task_queue, threads, workers,
                   is_running, shutdown_event, stopping, history, waiting,
                   starts,
                   schedvars, wdvars, crawler, starting>>

\* submit, lines 170-182, in a behaviour without end: the Task object h has
\* ended, its history row is written and no thread holds it; its place among
\* the objects is taken by the Task the call builds, which is stored in the
\* registry under its id.
SubmitAgain(h, priority, max_retries) ==
    /\ h \in Handles
    /\ objs[h].saved > 0
    /\ objs' = [objs EXCEPT ![h] = NewTask(now, FuncName, priority, max_retries)]
    /\ tasks' = (now :> h) @@ tasks
    /\ putting' = putting \cup {h}
    /\ UNCHANGED <<now, num_workers, max_queue_size, task_queue, threads, workers,
                   is_running, shutdown_event, stopping, history, waiting,
                   starts, schedvars, wdvars, crawler, starting>>

\* submit, line 183: task_queue.put blocks while the queue is full, then pushes
\* and submit returns the id.
SubmitPut(h) ==
    /\ h \in putting
    /\ ~QueueFull
    /\ task_queue' = HeapPush(task_queue, h)
    /\ putting' = putting \ {h}
    /\ waiting' = Append(waiting, h)
    /\ UNCHANGED <<now, num_workers, max_queue_size, objs, tasks, threads, workers,
                   is_running, shutdown_event, stopping, history, starts,
                   schedvars, wdvars, crawler, starting>>

\* ------------------------------------------------------------ start / stop
\* Mutant: the is_running test of lines 364-366 is missing.
StartUnguarded ==
    /\ BagCardinality(threads) <= num_workers + 1
    /\ starts' = starts + 1
    /\ is_running' = TRUE
    /\ shutdown_event' = FALSE
    /\ threads' = threads
           (+) [t \in {Thread("worker", "loop", 0)} |-> num_workers]
           (+) SetToBag({Thread("scheduler", "loop", 0)})
    /\ workers' = workers + num_workers + 1
    /\ UNCHANGED <<now, num_workers, max_queue_size, objs, tasks, task_queue,
                   putting, stopping, history, waiting,
                   schedvars, wdvars, crawler, starting>>

\* start(): a no-op when already running; otherwise clears the shutdown event
\* and spawns num_workers worker threads and the scheduler thread.
Start ==
    IF is_running
    THEN UNCHANGED vars
    ELSE /\ starts < MaxStarts
         /\ starts' = starts + 1
         /\ is_running' = TRUE
         /\ shutdown_event' = FALSE
         /\ threads' = threads
                (+) [t \in {Thread("worker", "loop", 0)} |-> num_workers]
                (+) SetToBag({Thread("scheduler", "loop", 0)})
         /\ workers' = workers + num_workers + 1
         /\ UNCHANGED <<now, num_workers, max_queue_size, objs, tasks, task_queue,
                        putting, stopping, history, waiting,
                   schedvars, wdvars, crawler, starting>>

\* start(), lines 364-366, when other callers may be inside start(): the
\* running flag is read; the call returns when it is set and goes on when not.
StartTest ==
    IF is_running
    THEN UNCHANGED vars
    ELSE /\ starting' = starting + 1
         /\ UNCHANGED <<now, num_workers, max_queue_size, objs, tasks, task_queue,
                        putting, threads, workers, is_running, shutdown_event,
                        stopping, history, waiting, starts, schedvars, wdvars,
                        crawler>>

\* start(), lines 368-380, of a call that found the flag clear: sets the
\* flag, clears the shutdown event and spawns the threads.
StartSpawn ==
    /\ starting > 0
    /\ starting' = starting - 1
    /\ starts' = starts + 1
    /\ is_running' = TRUE
    /\ shutdown_event' = FALSE
    /\ threads' = threads
           (+) [t \in {Thread("worker", "loop", 0)} |-> num_workers]
           (+) SetToBag({Thread("scheduler", "loop", 0)})
    /\ workers' = workers + num_workers + 1
    /\ UNCHANGED <<now, num_workers, max_queue_size, objs, tasks, task_queue,
                   putting, stopping, history, waiting, schedvars, wdvars,
                   crawler>>

\* stop(wait, timeout), lines 386-390: a no-op when not running; otherwise sets
\* the shutdown event and (wait) joins every listed thread with the timeout.
StopBegin(wait) ==
    IF ~is_running
    THEN UNCHANGED vars
    ELSE /\ stopping = "no"
         /\ shutdown_event' = TRUE
         /\ stopping' = IF wait THEN "wait" ELSE "nowait"
         /\ UNCHANGED <<now, num_workers, max_queue_size, objs, tasks, task_queue,
                        putting, threads, workers, is_running, history, waiting,
                        starts,
                   schedvars, wdvars, crawler, starting>>

\* Mutant: stop() also empties the queue.
StopEndDrain ==
    /\ stopping # "no"
    /\ stopping' = "no"
    /\ workers' = 0
    /\ is_running' = FALSE
    /\ task_queue' = << >>
    /\ waiting' = << >>
    /\ UNCHANGED <<now, num_workers, max_queue_size, objs, tasks, putting,
                   threads, shutdown_event, history, starts, schedvars, wdvars,
                   crawler, starting>>

\* stop, lines 392-397: each join returns when its thread has exited or the
\* timeout has elapsed; then the list is cleared and the flag reset.
StopEnd ==
    /\ stopping # "no"
    /\ stopping' = "no"
    /\ workers' = 0
    /\ is_running' = FALSE
    /\ UNCHANGED <<now, num_workers, max_queue_size, objs, tasks, task_queue,
                   putting, threads, shutdown_event, history, waiting, starts,
                   schedvars, wdvars, crawler, starting>>

\* ------------------------------------------------------------ worker loop
\* What no worker step changes.
WorkerFrame ==
    UNCHANGED <<now, num_workers, max_queue_size, tasks, putting, workers,
                is_running, shutdown_event, stopping, starts,
                   schedvars, wdvars, crawler, starting>>

\* Mutant: the loop test is `while True`; the worker never reads the event.
WorkerLoopDeaf(t) ==
    /\ t \in WorkersAt("loop")
    /\ threads' = Replace(t, Thread("worker", "get", 0))
    /\ WorkerFrame
    /\ UNCHANGED <<objs, task_queue, history, waiting>>

\* _worker_loop, line 311: the loop test; the thread ends when the event is set.
WorkerLoop(t) ==
    /\ t \in WorkersAt("loop")
    /\ threads' = IF shutdown_event
                  THEN threads (-) SetToBag({t})
                  ELSE Replace(t, Thread("worker", "get", 0))
    /\ WorkerFrame
    /\ UNCHANGED <<objs, task_queue, history, waiting>>

\* line 315: task_queue.get returns the head of the heap.
WorkerGet(t) ==
    /\ t \in WorkersAt("get")
    /\ task_queue # << >>
    /\ threads' = Replace(t, Thread("worker", "run", HeapTop(task_queue)))
    /\ task_queue' = HeapPop(task_queue)
    /\ waiting' = Without(waiting, HeapTop(task_queue))
    /\ WorkerFrame
    /\ UNCHANGED <<objs, history>>

\* lines 315-317: the timed get finds the queue empty; back to the loop test.
WorkerGetTimeout(t) ==
    /\ t \in WorkersAt("get")
    /\ task_queue = << >>
    /\ threads' = Replace(t, Thread("worker", "loop", 0))
    /\ WorkerFrame
    /\ UNCHANGED <<objs, task_queue, history, waiting>>

\* Mutants of the while test: one attempt too few, one too many.
WhileCondStrict(task) == task.retry_count < task.max_retries
WhileCondLoose(task) == task.retry_count <= task.max_retries + 1

\* _execute_task, line 251: the while test decides the next position.
WhileCond(task) == task.retry_count <= task.max_retries
AfterTest(task) == IF WhileCond(task) THEN "call" ELSE "finish"

\* line 248
ExecRun(t) ==
    /\ t \in WorkersAt("run")
    /\ objs' = [objs EXCEPT ![t.task].status = "running"]
    /\ threads' = Replace(t, Thread("worker", "stamp", t.task))
    /\ WorkerFrame
    /\ UNCHANGED <<task_queue, history, waiting>>

\* line 249
ExecStamp(t) ==
    /\ t \in WorkersAt("stamp")
    /\ objs' = [objs EXCEPT ![t.task].started_at = now]
    /\ threads' = Replace(t, Thread("worker", AfterTest(objs[t.task]), t.task))
    /\ WorkerFrame
    /\ UNCHANGED <<task_queue, history, waiting>>

\* Mutant: retry_count counts attempts, the successful one included.
SucceededCounted(task) ==
    [task EXCEPT !.result = TRUE, !.status = "completed", !.calls = @ + 1,
                 !.retry_count = @ + 1]

\* lines 253-255: the job returns.
Succeeded(task) ==
    [task EXCEPT !.result = TRUE, !.status = "completed", !.calls = @ + 1]

\* Mutant: the wait time is computed from the count before the increment of
\* line 257.
WaitTimeEarly(task) == Pow2(task.retry_count - 1)

\* line 265: wait_time = 2 ** task.retry_count
WaitTime(task) == Pow2(task.retry_count)

\* Mutant: Failed is declared one failure early (>= for >).
RaisedEager(task) ==
    LET counted == [task EXCEPT !.retry_count = @ + 1, !.error = TRUE,
                                !.calls = @ + 1]
    IN  IF counted.retry_count >= counted.max_retries
        THEN [counted EXCEPT !.status = "failed"]
        ELSE [counted EXCEPT !.waits = Append(@, WaitTime(counted))]

\* lines 256-267: the job raises; the task is Failed, or time.sleep is called
\* with the wait time.
Raised(task) ==
    LET counted == [task EXCEPT !.retry_count = @ + 1, !.error = TRUE,
                                !.calls = @ + 1]
    IN  IF counted.retry_count > counted.max_retries
        THEN [counted EXCEPT !.status = "failed"]
        ELSE [counted EXCEPT !.waits = Append(@, WaitTime(counted))]

\* Mutant: the except clause of line 256 is missing; a job that raises ends
\* the thread that called it.
ExecCallUncaught(t, ok) ==
    /\ t \in WorkersAt("call")
    /\ LET after == IF ok THEN Succeeded(objs[t.task]) ELSE objs[t.task]
       IN  /\ objs' = [objs EXCEPT ![t.task] = [after EXCEPT !.calls = @ + 1]]
           /\ threads' = IF ok THEN Replace(t, Thread("worker", "finish", t.task))
                         ELSE threads (-) SetToBag({t})
    /\ WorkerFrame
    /\ UNCHANGED <<task_queue, history, waiting>>

\* lines 252-267: one attempt; after a failure that leaves retries the worker
\* sleeps 2 ** retry_count, otherwise the loop test follows.
ExecCall(t, ok) ==
    /\ t \in WorkersAt("call")
    /\ LET after == IF ok THEN Succeeded(objs[t.task]) ELSE Raised(objs[t.task])
           next == IF ok THEN "finish"
                   ELSE IF after.status = "failed" THEN AfterTest(after)
                   ELSE "sleep"
       IN  /\ objs' = [objs EXCEPT ![t.task] = after]
           /\ threads' = Replace(t, Thread("worker", next, t.task))
    /\ WorkerFrame
    /\ UNCHANGED <<task_queue, history, waiting>>

\* Mutant: after the backoff the task is put back on the queue and the worker
\* returns to its loop.
ExecWakeRequeue(t) ==
    /\ t \in WorkersAt("sleep")
    /\ task_queue' = HeapPush(task_queue, t.task)
    /\ waiting' = Append(waiting, t.task)
    /\ threads' = Replace(t, Thread("worker", "loop", 0))
    /\ WorkerFrame
    /\ UNCHANGED <<objs, history>>

\* Mutant: the backoff sleep is cut short by the shutdown event and the worker
\* leaves, abandoning the task.
ExecWakeAbort(t) ==
    /\ t \in WorkersAt("sleep")
    /\ threads' = IF shutdown_event
                  THEN threads (-) SetToBag({t})
                  ELSE Replace(t, Thread("worker", AfterTest(objs[t.task]),
                                         t.task))
    /\ WorkerFrame
    /\ UNCHANGED <<objs, task_queue, history, waiting>>

\* line 267 returns: back to the while test.
ExecWake(t) ==
    /\ t \in WorkersAt("sleep")
    /\ threads' = Replace(t, Thread("worker", AfterTest(objs[t.task]), t.task))
    /\ WorkerFrame
    /\ UNCHANGED <<objs, task_queue, history, waiting>>

\* line 269
ExecFinish(t) ==
    /\ t \in WorkersAt("finish")
    /\ objs' = [objs EXCEPT ![t.task].completed_at = now]
    /\ threads' = Replace(t, Thread("worker", "save", t.task))
    /\ WorkerFrame
    /\ UNCHANGED <<task_queue, history, waiting>>

\* _save_task_history: the row INSERT OR REPLACE writes for a task.
Row(task) ==
    [id |-> task.id, name |-> task.name, status |-> task.status,
     priority |-> task.priority, result |-> task.result, error |-> task.error,
     started_at |-> task.started_at, completed_at |-> task.completed_at,
     duration |-> task.completed_at - task.started_at,
     retry_count |-> task.retry_count]

\* INSERT OR REPLACE INTO task_history: the row replaces any row of its id.
Upsert(table, row) == (row.id :> row) @@ table

\* lines 272 and 321: the history row is written, task_done, back to the loop.
ExecSave(t) ==
    /\ t \in WorkersAt("save")
    /\ history' = Upsert(history, Row(objs[t.task]))
    /\ objs' = [objs EXCEPT ![t.task].saved = @ + 1]
    /\ threads' = Replace(t, Thread("worker", "loop", 0))
    /\ WorkerFrame
    /\ UNCHANGED <<task_queue, waiting>>

\* ---------------------------------------------------------------- schedule
\* Python truth value of an Optional[int].
Truthy(n) == n # NULL /\ n # 0

\* ScheduledTask(...) as schedule constructs it (name=None: the job's
\* __name__), with next_run as lines
\* 220-221 set it; submitted is a ghost: the Task objects submit created for
\* the entry and the clock readings at which it did.
NewScheduledTask(id, interval, cron) ==
    [id |-> id, name |-> FuncName, interval_seconds |-> interval,
     cron_expression |-> cron, enabled |-> TRUE, last_run |-> NULL,
     next_run |-> IF Truthy(interval) THEN now + interval ELSE NULL,
     run_count |-> 0, submitted |-> << >>]

\* schedule, lines 208-244: the id is the clock reading; the entry is stored
\* in the map under that id.
Schedule(interval, cron) ==
    /\ entries' = Append(entries, NewScheduledTask(now, interval, cron))
    /\ scheduled_tasks' = (now :> (Len(entries) + 1)) @@ scheduled_tasks
    /\ UNCHANGED <<now, num_workers, max_queue_size, objs, tasks, task_queue,
                   putting, threads, workers, is_running, shutdown_event,
                   stopping, history, waiting, starts, wdvars, crawler, starting>>

\* --------------------------------------------------------- scheduler loop
SchedulerAt(pc) == {t \in Live : t.kind = "scheduler" /\ t.pc = pc}

\* A scheduler thread inside a pass: at is the clock reading of line 333, todo
\* the part of the snapshot of line 335 not yet done (its head is the entry
\* in hand), task the Task object submit created for that entry.
SchedThread(pc, at, todo, task) ==
    [kind |-> "scheduler", pc |-> pc, task |-> task, at |-> at, todo |-> todo]

\* list(self.scheduled_tasks.items()): the objects in the order of the dict,
\* which is the order of their keys (the clock readings of their insertion).
RECURSIVE InOrder(_)
InOrder(keys) ==
    IF keys = {} THEN << >>
    ELSE LET k == CHOOSE x \in keys : \A y \in keys : x <= y
         IN  <<scheduled_tasks[k]>> \o InOrder(keys \ {k})
Snapshot == InOrder(DOMAIN scheduled_tasks)

\* Mutant: line 339 tests only `now >= scheduled.next_run`, with None read
\* as the earliest time.
DueUnset(e, at) == e.enabled /\ at >= e.next_run

\* lines 336-339: the entry is enabled, has a next_run and it has come.
Due(e, at) == e.enabled /\ e.next_run # NULL /\ at >= e.next_run

\* The for loop of line 335 skips the entries that are not due.
RECURSIVE FromDue(_, _, _)
FromDue(ents, todo, at) ==
    IF todo = << >> THEN << >>
    ELSE IF Due(ents[Head(todo)], at) THEN todo
    ELSE FromDue(ents, Tail(todo), at)

\* _scheduler_loop, lines 332-339 and 358: the loop test, the clock reading,
\* the snapshot and the search for a due entry; with none due the thread
\* sleeps and is back at the loop test. The thread ends when the event is set.
SchedulerTick(t) ==
    /\ t \in SchedulerAt("loop")
    /\ LET due == FromDue(entries, Snapshot, now)
       IN  threads' = IF shutdown_event THEN threads (-) SetToBag({t})
                      ELSE IF due = << >> THEN threads
                      ELSE Replace(t, SchedThread("submit", now, due, 0))
    /\ WorkerFrame
    /\ UNCHANGED <<objs, task_queue, history, waiting>>

\* Mutant: the run's name is built from run_count itself.
RunNameStale(scheduled) ==
    scheduled.name \o "_run_" \o ToString(scheduled.run_count)

\* line 344: f"{scheduled.name}_run_{scheduled.run_count + 1}"
RunName(scheduled) ==
    scheduled.name \o "_run_" \o ToString(scheduled.run_count + 1)

\* lines 341-346, submit lines 170-182: the scheduler calls submit for the
\* entry in hand; the Task is built with the run's name and submit's defaults
\* and registered.
SchedulerSubmit(t) ==
    /\ t \in SchedulerAt("submit")
    /\ objs' = Append(objs, NewTask(now, RunName(entries[Head(t.todo)]),
                                    NORMAL, DefaultMaxRetries))
    /\ tasks' = (now :> (Len(objs) + 1)) @@ tasks
    /\ putting' = putting \cup {Len(objs) + 1}
    /\ entries' = [entries EXCEPT ![Head(t.todo)].submitted =
                       Append(@, [task |-> Len(objs) + 1, at |-> now])]
    /\ threads' = Replace(t, SchedThread("put", t.at, t.todo, Len(objs) + 1))
    /\ UNCHANGED <<now, num_workers, max_queue_size, task_queue, workers,
                   is_running, shutdown_event, stopping, history, waiting,
                   starts, scheduled_tasks, wdvars, crawler, starting>>

\* lines 348-358: submit has returned (its put is SubmitPut); the entry's
\* last_run, run_count and next_run are set from the reading of line 333,
\* the for loop goes on to the next due entry, and after the last one the
\* thread sleeps.
SchedulerRecord(t) ==
    /\ t \in SchedulerAt("put")
    /\ t.task \notin putting
    /\ LET e == Head(t.todo)
           ran == [entries[e] EXCEPT
                      !.last_run = t.at,
                      !.run_count = @ + 1,
                      !.next_run = IF Truthy(entries[e].interval_seconds)
                                   THEN t.at + entries[e].interval_seconds
                                   ELSE @]
           after == [entries EXCEPT ![e] = ran]
           due == FromDue(after, Tail(t.todo), t.at)
       IN  /\ entries' = after
           /\ threads' = IF due = << >>
                         THEN Replace(t, SchedThread("sleep", now, << >>, 0))
                         ELSE Replace(t, SchedThread("submit", t.at, due, 0))
    /\ UNCHANGED <<now, num_workers, max_queue_size, objs, tasks, task_queue,
                   putting, workers, is_running, shutdown_event, stopping,
                   history, waiting, starts, scheduled_tasks, wdvars, crawler, starting>>

\* line 358: time.sleep(1) returns once a tick period has passed.
SchedulerWake(t) ==
    /\ t \in SchedulerAt("sleep")
    /\ now >= t.at + 1
    /\ threads' = Replace(t, Thread("scheduler", "loop", 0))
    /\ WorkerFrame
    /\ UNCHANGED <<objs, task_queue, history, waiting>>

\* A scheduler thread has a step to take at the present clock reading: it is
\* neither asleep nor blocked in put (line 183) on a full queue.
SchedulerReady ==
    \E t \in Live :
        /\ t.kind = "scheduler"
        /\ \/ /\ t.pc = "loop"
              /\ shutdown_event \/ FromDue(entries, Snapshot, now) # << >>
           \/ t.pc = "submit"
           \/ t.pc = "put" /\ (t.task \notin putting \/ ~QueueFull)
           \/ t.pc = "sleep" /\ now >= t.at + 1

\* A tick period (1 s, line 358) passes. A pass of the scheduler takes less
\* than that: the clock moves on only when no scheduler thread has a step to
\* take.
Elapse ==
    /\ ~SchedulerReady
    /\ now' = now + 1
    /\ UNCHANGED <<num_workers, max_queue_size, objs, tasks, task_queue, putting,
                   threads, workers, is_running, shutdown_event, stopping,
                   history, waiting, starts, schedvars, wdvars, crawler, starting>>

\* ------------------------------------------------------------------- Next
\* Steps of the worker threads; a job returns (TRUE) or raises (FALSE) as
\* Outcomes allows.
WorkerStep(Outcomes) ==
    \/ \E t \in Live : WorkerLoop(t)
    \/ \E t \in Live : WorkerGet(t)
    \/ \E t \in Live : WorkerGetTimeout(t)
    \/ \E t \in Live : ExecRun(t)
    \/ \E t \in Live : ExecStamp(t)
    \/ \E t \in Live, ok \in Outcomes : ExecCall(t, ok)
    \/ \E t \in Live : ExecWake(t)
    \/ \E t \in Live : ExecFinish(t)
    \/ \E t \in Live : ExecSave(t)

\* Callers submit tasks of the default priority with any max_retries, jobs
\* return or raise, the orchestrator is started and stopped.
Next ==
    \/ Tick
    \/ /\ Len(objs) < MaxTasks
       /\ \E r \in RetryChoices : SubmitBegin(NORMAL, r)
    \/ \E h \in putting : SubmitPut(h)
    \/ Start
    \/ \E wait \in BOOLEAN : StopBegin(wait)
    \/ StopEnd
    \/ WorkerStep(BOOLEAN)
    \/ \E t \in Live : SchedulerTick(t)

Spec == Init /\ [][Next]_vars

\* One caller submits tasks of any priority (max_retries 0), one after the
\* other, to an orchestrator whose queue has the default size; the jobs
\* return. The clock stands still: the queue order does not read it.
InitOrder == \E nw \in 1 .. MaxWorkers : Constructed(nw, DefaultQueueSize)

NextOrder ==
    \/ /\ Len(objs) < MaxQueued
       /\ putting = {}
       /\ \E p \in Priorities : SubmitBegin(p, 0)
    \/ \E h \in putting : SubmitPut(h)
    \/ Start
    \/ \E t \in Live : WorkerLoop(t)
    \/ \E t \in Live : WorkerGet(t)
    \/ \E t \in Live : WorkerGetTimeout(t)
    \/ \E t \in Live : ExecRun(t)
    \/ \E t \in Live : ExecStamp(t)
    \/ \E t \in Live : ExecCall(t, TRUE)
    \/ \E t \in Live : ExecFinish(t)
    \/ \E t \in Live : ExecSave(t)

SpecOrder == InitOrder /\ [][NextOrder]_vars

\* Callers submit tasks of the default priority with any max_retries to a
\* started orchestrator whose queue has the default size; the jobs return or
\* raise. The clock stands still: the retry loop does not read it.
InitRetry == \E nw \in 1 .. MaxWorkers : Constructed(nw, DefaultQueueSize)

NextRetry ==
    \/ /\ Len(objs) < MaxTasks
       /\ \E r \in RetryChoices : SubmitBegin(NORMAL, r)
    \/ \E h \in putting : SubmitPut(h)
    \/ Start
    \/ WorkerStep(BOOLEAN)

SpecRetry == InitRetry /\ [][NextRetry]_vars

\* Callers submit tasks (max_retries 1) to an orchestrator that is started and
\* stopped; the jobs return or raise. Every thread that can take a step eventually takes
\* one, and a stop() call that is joining eventually goes on: each join has a
\* timeout.
InitStop == \E nw \in 1 .. MaxWorkers : Constructed(nw, DefaultQueueSize)

NextStop ==
    \/ /\ Len(objs) < MaxStopTasks
       /\ SubmitBegin(NORMAL, 1)
    \/ \E h \in putting : SubmitPut(h)
    \/ Start
    \/ \E wait \in BOOLEAN : StopBegin(wait)
    \/ StopEnd
    \/ WorkerStep(BOOLEAN)
    \/ \E t \in Live : SchedulerTick(t)

SpecStop ==
    /\ InitStop
    /\ [][NextStop]_vars
    /\ WF_vars(StopEnd)
    /\ WF_vars(WorkerStep(BOOLEAN))
    /\ WF_vars(\E t \in Live : SchedulerTick(t))

\* Callers schedule entries with an interval or with a cron expression; the
\* started orchestrator's scheduler submits their runs to one
\* worker; the jobs return. The queue holds one task or has the default size.
\* The clock counts tick periods.
InitSched == \E qs \in {1, DefaultQueueSize} : Constructed(1, qs)

NextSched ==
    \/ /\ Len(entries) < MaxEntries
       /\ \/ \E i \in IntervalChoices \ {NULL} : Schedule(i, FALSE)
          \/ Schedule(NULL, TRUE)
    \/ Start
    \/ /\ now < MaxSchedClock
       /\ Elapse
    \/ \E t \in Live : SchedulerTick(t)
    \/ /\ Len(objs) < MaxRuns
       /\ \E t \in Live : SchedulerSubmit(t)
    \/ \E h \in putting : SubmitPut(h)
    \/ \E t \in Live : SchedulerRecord(t)
    \/ \E t \in Live : SchedulerWake(t)
    \/ \E t \in Live : WorkerLoop(t)
    \/ \E t \in Live : WorkerGet(t)
    \/ \E t \in Live : WorkerGetTimeout(t)
    \/ \E t \in Live : ExecRun(t)
    \/ \E t \in Live : ExecStamp(t)
    \/ \E t \in Live : ExecCall(t, TRUE)
    \/ \E t \in Live : ExecFinish(t)
    \/ \E t \in Live : ExecSave(t)

SpecSched == InitSched /\ [][NextSched]_vars

\* The watchdog runs its check cycles; each probe succeeds, fails or raises,
\* every restart command is spawned, a signal may arrive at any moment.
InitWatchdogOnly == Constructed(1, DefaultQueueSize)

NextWatchdog ==
    \/ /\ watchdog.cycle < MaxCycles \/ ~watchdog.running
       /\ WatchdogLoop
    \/ \E outcome \in ProbeOutcomes : WatchdogCheck(outcome, TRUE)
    \/ WatchdogSummary
    \/ WatchdogSleep
    \/ WatchdogSignal

SpecWatchdog == InitWatchdogOnly /\ [][NextWatchdog]_vars

\* ---------------------------------------------------------------- queries
\* get_task_status's `return None` (line 404): the not-found signal.
NotFound == [found |-> FALSE]

\* Mutant: get_task_status looks only at tasks that have not ended.
GetTaskStatusLive(task_id) ==
    IF task_id \in DOMAIN tasks
       /\ objs[tasks[task_id]].status \in {"pending", "running"}
    THEN LET task == objs[tasks[task_id]]
         IN  [id |-> task.id, name |-> task.name, status |-> task.status,
              priority |-> task.priority, started_at |-> task.started_at,
              completed_at |-> task.completed_at,
              retry_count |-> task.retry_count, error |-> task.error]
    ELSE NotFound

\* get_task_status: None for an id the registry does not hold, otherwise a
\* dict of the Task's present fields.
GetTaskStatus(task_id) ==
    IF task_id \in DOMAIN tasks
    THEN LET task == objs[tasks[task_id]]
         IN  [id |-> task.id, name |-> task.name, status |-> task.status,
              priority |-> task.priority, started_at |-> task.started_at,
              completed_at |-> task.completed_at,
              retry_count |-> task.retry_count, error |-> task.error]
    ELSE NotFound

\* One caller submits tasks of the default priority with max_retries 0 or
\* MaxRetries, one after the other, to a started orchestrator with one worker
\* whose queue has the default size; the jobs return or raise; the clock
\* advances.
InitQuery == Constructed(1, DefaultQueueSize)

NextQuery ==
    \/ Tick
    \/ /\ Len(objs) < MaxTasks
       /\ putting = {}
       /\ \E r \in {0, MaxRetries} : SubmitBegin(NORMAL, r)
    \/ \E h \in putting : SubmitPut(h)
    \/ Start
    \/ WorkerStep(BOOLEAN)

SpecQuery == InitQuery /\ [][NextQuery]_vars

\* get_task_history: limit: int = 100
DefaultLimit == 100

\* The sequences that list each element of S once.
RECURSIVE Perms(_)
Perms(S) ==
    IF S = {} THEN {<< >>}
    ELSE UNION {{<<x>> \o p : p \in Perms(S \ {x})} : x \in S}

\* Mutant: ORDER BY completed_at ASC.
OrderedAsc ==
    {o \in Perms(DOMAIN history) :
        \A i, j \in DOMAIN o :
            i < j => history[o[i]].completed_at <= history[o[j]].completed_at}

\* ORDER BY completed_at DESC: the orders in which the rows of the table may
\* come; SQL leaves the order of rows of equal completed_at open.
Ordered ==
    {o \in Perms(DOMAIN history) :
        \A i, j \in DOMAIN o :
            i < j => history[o[i]].completed_at >= history[o[j]].completed_at}

\* LIMIT ?: the first n rows; SQLite reads a negative n as no limit.
Limit(o, n) ==
    IF n < 0 \/ n >= Len(o) THEN o ELSE SubSeq(o, 1, n)

\* lines 434 and 442-450: the dict built from the columns of the SELECT list.
HistoryEntry(row) ==
    [id |-> row.id, name |-> row.name, status |-> row.status,
     priority |-> row.priority, duration_seconds |-> row.duration,
     error |-> row.error, completed_at |-> row.completed_at]

\* get_task_history(limit): the lists the call may return.
GetTaskHistory(limit) ==
    {[i \in DOMAIN Limit(o, limit) |-> HistoryEntry(history[o[i]])] :
        o \in Ordered}

\* get_queue_stats, lines 420-426.
GetQueueStats ==
    [queue_size |-> Len(task_queue),
     total_tasks |-> Cardinality(DOMAIN tasks),
     scheduled_tasks |-> Cardinality(DOMAIN scheduled_tasks),
     workers |-> workers,
     is_running |-> is_running]

\* The crawl loop runs; each unit of work returns or raises, a signal may
\* arrive at any moment. Every call the loop makes returns: the unit of work
\* and each sleep end.
InitCrawl == Constructed(1, DefaultQueueSize)

CrawlerNext ==
    \/ \E sleep_seconds \in CrawlIntervals : CrawlerConfigure(sleep_seconds)
    \/ /\ crawler.cycle < MaxCrawls \/ ~crawler.running
       /\ CrawlerLoop
    \/ \E ok \in BOOLEAN : CrawlerCrawl(ok)
    \/ \E late \in BOOLEAN : CrawlerInterval(late)
    \/ CrawlerChunk
    \/ CrawlerBackoff
    \/ CrawlerCooldown

NextCrawl ==
    \/ CrawlerNext
    \/ CrawlerSignal

SpecCrawl == InitCrawl /\ [][NextCrawl]_vars /\ WF_vars(CrawlerNext)

\* Callers submit tasks of the default priority with max_retries up to
\* MaxBackoffRetries to a started orchestrator whose queue has the default
\* size; the jobs return or raise. The clock stands still.
InitBackoff == \E nw \in 1 .. MaxWorkers : Constructed(nw, DefaultQueueSize)

NextBackoff ==
    \/ /\ Len(objs) < MaxBackoffTasks
       /\ \E r \in -1 .. MaxBackoffRetries : SubmitBegin(NORMAL, r)
    \/ \E h \in putting : SubmitPut(h)
    \/ Start
    \/ WorkerStep(BOOLEAN)

SpecBackoff == InitBackoff /\ [][NextBackoff]_vars

\* A worker inside _execute_task (lines 248-272) takes its next step.
Executing ==
    \E t \in Live :
        \/ ExecRun(t)
        \/ ExecStamp(t)
        \/ \E ok \in BOOLEAN : ExecCall(t, ok)
        \/ ExecWake(t)
        \/ ExecFinish(t)
        \/ ExecSave(t)

\* The orchestrator of SpecStop, where in addition a worker that is executing
\* a task eventually takes its next step whatever the idle threads do: every
\* job invocation returns or raises and every backoff sleep ends.
SpecShutdown ==
    /\ InitStop
    /\ [][NextStop]_vars
    /\ WF_vars(StopEnd)
    /\ WF_vars(Executing)

\* Callers start and stop an orchestrator with one worker any number of times,
\* their start() calls overlapping, and submit tasks (max_retries 0) one after
\* the other; the jobs return or raise.
InitRestart == Constructed(1, DefaultQueueSize)

Restarting(max_tasks) ==
    \/ /\ Len(objs) < max_tasks
       /\ putting = {}
       /\ SubmitBegin(NORMAL, 0)
    \/ \E h \in putting : SubmitPut(h)
    \/ /\ starts + starting < MaxRestarts
       /\ StartTest
    \/ StartSpawn
    \/ \E wait \in BOOLEAN : StopBegin(wait)
    \/ StopEnd
    \/ \E t \in Live : WorkerLoop(t)
    \/ \E t \in Live : WorkerGet(t)
    \/ \E t \in Live : WorkerGetTimeout(t)
    \/ \E t \in Live : ExecRun(t)
    \/ \E t \in Live : ExecStamp(t)
    \/ \E t \in Live, ok \in BOOLEAN : ExecCall(t, ok)
    \/ \E t \in Live : ExecFinish(t)
    \/ \E t \in Live : ExecSave(t)
    \/ \E t \in Live : SchedulerTick(t)

NextRestart == Restarting(MaxRestartTasks)

SpecRestart == InitRestart /\ [][NextRestart]_vars

\* The orchestrator of SpecRestart with MaxResumeTasks tasks, where every
\* worker thread that can take a step eventually takes one: a worker at its
\* loop test, a worker whose timed get has a task to return, and a worker
\* inside _execute_task.
NextResume == Restarting(MaxResumeTasks)

SpecResume ==
    /\ InitRestart
    /\ [][NextResume]_vars
    /\ WF_vars(\E t \in Live : WorkerLoop(t))
    /\ WF_vars(\E t \in Live : WorkerGet(t))
    /\ WF_vars(Executing)

\* One caller submits tasks of High or Low priority, of max_retries 0 or -1,
\* without end, one after the other, to a started orchestrator with one
\* worker whose queue has the default size; the jobs return. The clock
\* stands still, so every call computes the same id. Every worker thread
\* that can take a step eventually takes one; nothing obliges the caller to
\* go on.
StarvePriorities == {HIGH, LOW}
StarveRetries == {-1, 0}

InitStarve == Constructed(1, DefaultQueueSize)

NextStarve ==
    \/ /\ Len(objs) < MaxStarveTasks
       /\ putting = {}
       /\ \E p \in StarvePriorities, r \in StarveRetries : SubmitBegin(p, r)
    \/ /\ putting = {}
       /\ \E h \in Handles, p \in StarvePriorities, r \in StarveRetries :
             SubmitAgain(h, p, r)
    \/ \E h \in putting : SubmitPut(h)
    \/ Start
    \/ \E t \in Live : WorkerLoop(t)
    \/ \E t \in Live : WorkerGet(t)
    \/ \E t \in Live : WorkerGetTimeout(t)
    \/ \E t \in Live : ExecRun(t)
    \/ \E t \in Live : ExecStamp(t)
    \/ \E t \in Live : ExecCall(t, TRUE)
    \/ \E t \in Live : ExecFinish(t)
    \/ \E t \in Live : ExecSave(t)

SpecStarve ==
    /\ InitStarve
    /\ [][NextStarve]_vars
    /\ WF_vars(\E t \in Live : WorkerLoop(t))
    /\ WF_vars(\E t \in Live : WorkerGet(t))
    /\ WF_vars(Executing)

\* A scheduler thread is in time.sleep(1) (line 358) and the second has not
\* passed yet.
SchedulerAsleep ==
    \E t \in Live : t.kind = "scheduler" /\ t.pc = "sleep" /\ now < t.at + 1

\* Callers schedule interval entries and stop the started orchestrator, whose
\* queue holds one task or has the default size; the scheduler submits the
\* runs to one worker; the jobs return. Time passes: the clock is followed up
\* to MaxStopClock, and after that for as long as a scheduler thread sleeps
\* with the shutdown event set. Every thread that can take a step eventually
\* takes one, a put goes on when the queue has room, and a stop() call that
\* is joining eventually goes on.
NextSchedStop ==
    \/ /\ Len(entries) < MaxStopEntries
       /\ \E i \in IntervalChoices \ {NULL} : Schedule(i, FALSE)
    \/ Start
    \/ \E wait \in BOOLEAN : StopBegin(wait)
    \/ StopEnd
    \/ /\ now < MaxStopClock \/ (shutdown_event /\ SchedulerAsleep)
       /\ Elapse
    \/ \E t \in Live : SchedulerTick(t)
    \/ \E t \in Live : SchedulerSubmit(t)
    \/ \E h \in putting : SubmitPut(h)
    \/ \E t \in Live : SchedulerRecord(t)
    \/ \E t \in Live : SchedulerWake(t)
    \/ \E t \in Live : WorkerLoop(t)
    \/ \E t \in Live : WorkerGet(t)
    \/ \E t \in Live : WorkerGetTimeout(t)
    \/ \E t \in Live : ExecRun(t)
    \/ \E t \in Live : ExecStamp(t)
    \/ \E t \in Live : ExecCall(t, TRUE)
    \/ \E t \in Live : ExecFinish(t)
    \/ \E t \in Live : ExecSave(t)

SpecSchedStop ==
    /\ InitSched
    /\ [][NextSchedStop]_vars
    /\ WF_vars(StopEnd)
    /\ WF_vars((now < MaxStopClock \/ (shutdown_event /\ SchedulerAsleep))
               /\ Elapse)
    /\ WF_vars(\E t \in Live : SchedulerTick(t))
    /\ WF_vars(\E t \in Live : SchedulerSubmit(t))
    /\ WF_vars(\E h \in putting : SubmitPut(h))
    /\ WF_vars(\E t \in Live : SchedulerRecord(t))
    /\ WF_vars(\E t \in Live : SchedulerWake(t))
    /\ WF_vars(\E t \in Live : WorkerLoop(t))
    /\ WF_vars(\E t \in Live : WorkerGet(t))
    /\ WF_vars(Executing)

\* The watchdog runs its check cycles; each probe succeeds, fails or raises,
\* the spawn of a restart command succeeds or raises, a signal may arrive at
\* any moment.
NextWatchdogSpawn ==
    \/ /\ watchdog.cycle < MaxCycles \/ ~watchdog.running
       /\ WatchdogLoop
    \/ \E outcome \in ProbeOutcomes, spawn_ok \in BOOLEAN :
           WatchdogCheck(outcome, spawn_ok)
    \/ WatchdogSummary
    \/ WatchdogSleep
    \/ WatchdogSignal

SpecWatchdogSpawn == InitWatchdogOnly /\ [][NextWatchdogSpawn]_vars

\* ================================================================ claims
Range(seq) == {seq[i] : i \in DOMAIN seq}
Queued == Range(task_queue)
Terminal == {"completed", "failed", "cancelled"}
\* A step in which a worker's get returns: the queue loses one element.
IsDequeue == Len(task_queue') < Len(task_queue)
Dequeued == CHOOSE h \in Queued : h \notin Range(task_queue')
\* The task's while loop (line 251) has been left.
LoopLeft(h) ==
    \/ objs[h].completed_at # NULL
    \/ \E t \in WorkersAt("finish") : t.task = h

\* C1: whenever a worker dequeues, the task it receives has the smallest
\* priority ordinal among the tasks in the queue at that moment.
PriorityOrder ==
    [][IsDequeue =>
          /\ \A g \in Queued : objs[Dequeued].priority <= objs[g].priority
          /\ \E t \in BagToSet(threads') : t.pc = "run" /\ t.task = Dequeued]_vars

\* C1 witness: one worker, tasks submitted Low, Critical, High; Critical has
\* been executed, the worker now holds High, and Low is still queued.
PriorityOrderWitness ==
    /\ num_workers = 1
    /\ Len(objs) = 3
    /\ objs[1].priority = LOW /\ objs[2].priority = CRITICAL
    /\ objs[3].priority = HIGH
    /\ objs[2].saved = 1
    /\ \E t \in WorkersAt("run") : t.task = 3
    /\ task_queue = <<1>>

\* C2: of two queued tasks of equal priority, the one whose put returned first
\* is dequeued first.
FifoTieBreak ==
    [][IsDequeue =>
          \A i, j \in DOMAIN waiting :
              (waiting[j] = Dequeued /\ i < j)
                  => objs[waiting[i]].priority # objs[Dequeued].priority]_vars

\* C3: the submit calls made so far returned pairwise distinct ids and the
\* registry holds one entry per call.
IdsUnique ==
    /\ \A a, b \in Handles : a # b => objs[a].id # objs[b].id
    /\ Cardinality(DOMAIN tasks) = Len(objs)

\* C4: a submit called while the queue is full is rejected: it adds no entry
\* to the registry, no element to the queue, and no caller is left blocked.
BackPressure ==
    [][QueueFull => (tasks' = tasks /\ Len(objs') = Len(objs))]_vars

\* C5: a task with max_retries >= 0 whose every invocation raised has, once
\* its loop is left, been invoked max_retries + 1 times and is Failed with
\* retry_count = max_retries + 1 and an error.
RetryExhaustion ==
    \A h \in Handles :
        (objs[h].max_retries >= 0 /\ LoopLeft(h) /\ objs[h].status # "completed")
            => /\ objs[h].status = "failed"
               /\ objs[h].calls = objs[h].max_retries + 1
               /\ objs[h].retry_count = objs[h].max_retries + 1
               /\ objs[h].error

\* C5 witness: a task with the largest max_retries ended Failed.
RetryExhaustionWitness ==
    \E h \in Handles :
        /\ objs[h].max_retries = MaxRetries
        /\ objs[h].status = "failed"
        /\ objs[h].saved = 1

\* C6: a task is Completed exactly when its last invocation returned; its
\* retry_count is then the number K <= max_retries of invocations that raised
\* before, K + 1 invocations in all.
RetrySuccess ==
    \A h \in Handles :
        /\ objs[h].status = "completed" <=> objs[h].result
        /\ objs[h].status = "completed"
            => /\ objs[h].retry_count = objs[h].calls - 1
               /\ objs[h].retry_count <= objs[h].max_retries

\* C6 witness: a task Completed on its last permitted attempt.
RetrySuccessWitness ==
    \E h \in Handles :
        /\ objs[h].status = "completed"
        /\ objs[h].max_retries = MaxRetries
        /\ objs[h].retry_count = MaxRetries
        /\ objs[h].calls = MaxRetries + 1

\* C7: for a task with max_retries >= 0, retry_count and the number of
\* invocations never exceed max_retries + 1.
AttemptBound ==
    \A h \in Handles :
        objs[h].max_retries >= 0
            => /\ objs[h].retry_count <= objs[h].max_retries + 1
               /\ objs[h].calls <= objs[h].max_retries + 1

\* C7 witness: a task reached the bound.
AttemptBoundWitness ==
    \E h \in Handles :
        /\ objs[h].max_retries >= 0
        /\ objs[h].calls = objs[h].max_retries + 1
        /\ objs[h].retry_count = objs[h].max_retries + 1
        /\ \E t \in WorkersAt("finish") : t.task = h

\* C8: a task's status moves only Pending -> Running -> Completed | Failed,
\* and a Completed, Failed or Cancelled status is never changed by any step.
StatusMonotonic ==
    [][\A h \in Handles :
          \/ objs'[h].status = objs[h].status
          \/ /\ objs[h].status \notin Terminal
             /\ <<objs[h].status, objs'[h].status>> \in
                    {<<"pending", "running">>, <<"running", "completed">>,
                     <<"running", "failed">>}]_vars

\* C8 witness: one task ended Completed, another Failed, and the orchestrator
\* was stopped afterwards.
StatusMonotonicWitness ==
    /\ \E a, b \in Handles :
          /\ objs[a].status = "completed" /\ objs[a].saved = 1
          /\ objs[b].status = "failed" /\ objs[b].saved = 1
    /\ starts = 1
    /\ ~is_running

\* Number of history writes keyed by id.
WritesKeyed(id) ==
    Cardinality({h \in Handles : objs[h].id = id /\ objs[h].saved > 0})

\* C9: for a task that reached Completed or Failed at most one history write
\* is keyed by its id, and once written the row is that task's snapshot.
HistoryExactlyOnce ==
    \A h \in Handles :
        objs[h].status \in {"completed", "failed"}
            => /\ WritesKeyed(objs[h].id) <= 1
               /\ objs[h].saved <= 1
               /\ objs[h].saved = 1 => history[objs[h].id] = Row(objs[h])

\* C10: a history row, once written, is never changed by a later write.
HistoryImmutable ==
    [][\A k \in DOMAIN history : history'[k] = history[k]]_vars

\* A step in which an invocation of task h's job raised.
JobRaised(h) == objs'[h].calls = objs[h].calls + 1 /\ ~objs'[h].result

\* C11: an exception raised by a job is recorded on the task (error,
\* retry_count + 1) and the worker that called the job stays alive, holding the
\* task; no thread ends unless the shutdown event is set.
FailureContained ==
    [][/\ \A h \in Handles :
             (h \in DOMAIN objs' /\ JobRaised(h))
                 => /\ objs'[h].error
                    /\ objs'[h].retry_count = objs[h].retry_count + 1
                    /\ \E t \in BagToSet(threads') :
                           t.kind = "worker" /\ t.task = h
       /\ BagCardinality(threads') < BagCardinality(threads)
             => shutdown_event]_vars

\* C11 witness: the only worker ran a task to Failed, wrote its history row,
\* and is now invoking the job of another task.
FailureContainedWitness ==
    /\ num_workers = 1
    /\ \E a, b \in Handles :
          /\ a # b
          /\ objs[a].status = "failed" /\ objs[a].saved = 1
          /\ \E t \in WorkersAt("call") : t.task = b

\* The queue is empty, no submit is under way and no task is in flight.
Idle ==
    /\ task_queue = << >>
    /\ putting = {}
    /\ \A h \in Handles : objs[h].saved > 0
\* A step in which stop(wait=True, timeout) returns.
StopReturns == stopping = "wait" /\ stopping' = "no"

\* C12 as stated: when stop(wait=True, timeout) returns on an idle
\* orchestrator, every worker thread and the scheduler thread have exited and
\* the running flag is false.
ShutdownJoinsAll ==
    [][(StopReturns /\ Idle) => (threads' = EmptyBag /\ ~is_running')]_vars

\* C12 amended: stop(wait=True, timeout) eventually returns, and when it
\* returns the running flag is false, the thread list is empty and the
\* shutdown event is set; on an idle orchestrator every thread still alive
\* then leaves its loop, unless start() clears the event first.
GracefulShutdown ==
    /\ [][StopReturns => (~is_running' /\ workers' = 0 /\ shutdown_event')]_vars
    /\ (stopping = "wait") ~> (stopping = "no")
    /\ (shutdown_event /\ Idle)
          ~> (threads = EmptyBag \/ ~shutdown_event \/ ~Idle)

\* C12 witness: stop(wait=True) is joining an idle orchestrator after a task
\* has been executed, and every thread has exited.
GracefulShutdownWitness ==
    /\ stopping = "wait"
    /\ Idle
    /\ Len(objs) > 0
    /\ threads = EmptyBag

\* C13: while the orchestrator is running no step (a start() call included)
\* spawns a thread, extends the thread list, clears the shutdown event or
\* counts as a spawning start; the running flag is reset by stop() only.
StartIdempotent ==
    [][is_running =>
          /\ BagCardinality(threads') <= BagCardinality(threads)
          /\ workers' \in {workers, 0}
          /\ shutdown_event => shutdown_event'
          /\ starts' = starts
          /\ is_running' \/ stopping # "no"]_vars

\* C13 witness: the orchestrator is running with its full pool listed, a
\* task is queued and registered, and stop() has set the shutdown event: a
\* start() call here returns at line 366.
StartIdempotentWitness ==
    /\ is_running
    /\ starts = 1
    /\ workers = num_workers + 1
    /\ BagCardinality(threads) = num_workers + 1
    /\ shutdown_event
    /\ task_queue # << >>
    /\ ENABLED Start

\* A scheduler thread is running: alive, and the shutdown event is clear.
SchedulerRunning ==
    ~shutdown_event /\ \E t \in Live : t.kind = "scheduler"

\* C14: for an entry scheduled at t0 (its id) with interval I > 0, the k-th
\* task the scheduler submits for it is submitted no earlier than t0 + k*I and
\* at least I after the one before; and while the scheduler is running a tick
\* period never ends with an enabled entry of the map still due.
Cadence ==
    [][/\ \A e \in DOMAIN entries' :
             LET I == entries'[e].interval_seconds
                 sub == entries'[e].submitted
             IN  Truthy(I) =>
                     \A k \in DOMAIN sub :
                         /\ sub[k].at >= entries'[e].id + k * I
                         /\ k > 1 => sub[k].at - sub[k - 1].at >= I
       /\ (now' > now /\ SchedulerRunning)
             => \A e \in Range(Snapshot) : ~Due(entries[e], now)]_vars

\* C15: schedule stores the entry it creates in the map under the id it
\* returns, and an entry with a cron expression and no interval never has a
\* task submitted for it and keeps last_run, next_run and run_count as
\* schedule left them.
CronInert ==
    [][/\ Len(entries') > Len(entries)
             => /\ entries'[Len(entries')].id \in DOMAIN scheduled_tasks'
                /\ scheduled_tasks'[entries'[Len(entries')].id] = Len(entries')
       /\ \A e \in DOMAIN entries' :
             (entries'[e].cron_expression /\ entries'[e].interval_seconds = NULL)
                 => /\ entries'[e].submitted = << >>
                    /\ entries'[e].last_run = NULL
                    /\ entries'[e].next_run = NULL
                    /\ entries'[e].run_count = 0]_vars

\* C15 witness: an interval entry was scheduled first, a cron entry one tick
\* period later; the scheduler has since submitted the interval entry's second
\* run, in a pass over both, and the clock has moved on.
CronInertWitness ==
    /\ Len(entries) = 2
    /\ entries[2].cron_expression /\ entries[2].interval_seconds = NULL
    /\ scheduled_tasks[entries[2].id] = 2
    /\ entries[1].run_count = 2
    /\ entries[2].id < entries[1].last_run
    /\ now > entries[1].last_run

\* Every check recorded in ev found the service unhealthy.
AllUnhealthy(ev) == \A k \in DOMAIN ev : ~ev[k].healthy
\* Number of checks recorded in ev that did d.
Count(ev, d) == Cardinality({k \in DOMAIN ev : ev[k].did = d})
\* The checks k - n .. k - 1 of ev are a whole failure streak and check k
\* found the service healthy.
StreakEnds(ev, k, n) ==
    /\ k > n
    /\ ev[k].healthy
    /\ \A j \in 1 .. n : ~ev[k - j].healthy
    /\ k = n + 1 \/ ev[k - n - 1].healthy

\* C16: for a service with a restart action whose every check so far was
\* unhealthy, the checks that spawned a restart are exactly the first
\* MAX_RESTART_ATTEMPTS ones, and the escalation was emitted once if the
\* streak is longer than that and not at all otherwise.
BoundedRestart ==
    \A s \in DOMAIN services :
        (services[s].restart_cmd /\ AllUnhealthy(events[s]))
            => /\ \A k \in DOMAIN events[s] :
                     events[s][k].did = "restarted" <=> k <= MAX_RESTART_ATTEMPTS
               /\ Count(events[s], "escalated")
                     = IF Len(events[s]) > MAX_RESTART_ATTEMPTS THEN 1 ELSE 0

RecoveryEveryProbe ==
    \A s \in DOMAIN services :
        /\ \A k \in DOMAIN events[s] :
              events[s][k].healthy
                  => (events[s][k].did = "recovered"
                         <=> (k > 1 /\ ~events[s][k - 1].healthy))
        /\ (events[s] # << >> /\ events[s][Len(events[s])].healthy)
              => services[s].restart_count = 0

\* C19: a service without a restart action never has a restart spawned or
\* attempted for it, and its restart counter is 0.
NoRestartWithoutAction ==
    \A s \in DOMAIN services :
        ~services[s].restart_cmd
            => /\ services[s].restart_count = 0
               /\ \A k \in DOMAIN events[s] :
                     events[s][k].did \notin {"restarted", "spawn_failed"}

\* C19 witness: the database was healthy once and then unhealthy on more than
\* MAX_RESTART_ATTEMPTS checks.
NoRestartWithoutActionWitness ==
    /\ Len(events["database"]) > MAX_RESTART_ATTEMPTS + 1
    /\ events["database"][1].healthy
    /\ \A k \in 2 .. Len(events["database"]) : ~events["database"][k].healthy

\* The check of the service at position k of ServiceNames is being made.
Checking(k) ==
    /\ watchdog.pc = "check"
    /\ watchdog.i = k
    /\ Len(events'[ServiceNames[k]]) = Len(events[ServiceNames[k]]) + 1
\* What the unhealthy branch (lines 187-217) does for the service.
WhenUnhealthy(service) ==
    IF service.restart_cmd /\ service.restart_count < MAX_RESTART_ATTEMPTS
    THEN "restarted"
    ELSE IF service.restart_count >= MAX_RESTART_ATTEMPTS THEN "escalated"
    ELSE "none"

\* C20: a check whose probe raises is handled as an unhealthy one (restart,
\* escalation or nothing, as the counter and the restart action decide), the
\* for loop goes on to the next service in the same cycle, every service has
\* been checked once per cycle when the cycle ends, and the loop is left only
\* after a signal.
ProbeMapped ==
    [][/\ \A k \in DOMAIN ServiceNames :
             (Checking(k) /\ watchdog'.probed = "raises")
                 => LET s == ServiceNames[k]
                        e == events'[s][Len(events'[s])]
                    IN  /\ ~e.healthy
                        /\ e.did = WhenUnhealthy(services[s])
                        /\ services'[s].restart_count =
                              services[s].restart_count
                                  + (IF e.did = "restarted" THEN 1 ELSE 0)
                        /\ watchdog'.cycle = watchdog.cycle
                        /\ IF k < Len(ServiceNames)
                           THEN watchdog'.pc = "check" /\ watchdog'.i = k + 1
                           ELSE watchdog'.pc = "summary"
       /\ watchdog'.pc \in {"summary", "sleep"}
             => \A s \in DOMAIN services : Len(events'[s]) = watchdog'.cycle
       /\ watchdog'.pc = "stopped" => ~watchdog.running]_vars

\* C20 witness: the api's probe has just raised on a check after its restarts
\* were used up, the escalation was emitted for it, and the for loop is at the
\* database.
ProbeMappedWitness ==
    /\ watchdog.pc = "check"
    /\ watchdog.i = 2
    /\ watchdog.probed = "raises"
    /\ events["api"][Len(events["api"])].did = "escalated"

\* The ids a caller may ask about: every clock reading, and one that is never
\* a task's id.
IdSpace == 0 .. MaxClock + 1
\* The ids submit has issued.
Issued == {objs[h].id : h \in Handles}

\* C21: get_task_status returns a snapshot for exactly the ids submit has
\* issued and not-found for every other id; an id that has a snapshot has one
\* in every later state, and the number of registry entries never decreases.
RegistryPermanence ==
    [][/\ \A id \in IdSpace :
             /\ GetTaskStatus(id) # NotFound => GetTaskStatus(id)' # NotFound
             /\ GetTaskStatus(id)' # NotFound <=> id \in Issued'
             /\ GetTaskStatus(id)' # NotFound => GetTaskStatus(id)'.id = id
       /\ Cardinality(DOMAIN tasks') >= Cardinality(DOMAIN tasks)]_vars

\* C21 witness: the first task ended and its history row was written, the
\* clock advanced, and a second task was submitted; the first task's id still
\* has a snapshot and an id never issued has none.
RegistryPermanenceWitness ==
    /\ Len(objs) = 2
    /\ objs[1].id # objs[2].id
    /\ objs[1].saved = 1
    /\ GetTaskStatus(objs[1].id).status \in {"completed", "failed"}
    /\ GetTaskStatus(MaxClock + 1) = NotFound

\* The task ended Failed and its history row has been written.
EndedFailed(h) == objs[h].status = "failed" /\ objs[h].saved = 1

\* C22: for every task that ended Failed, get_task_status returns a snapshot
\* with its error and its final retry_count, and get_task_history returns an
\* entry for it with its error and its final retry_count.
FailedVisible ==
    \A h \in Handles :
        EndedFailed(h)
            => /\ LET s == GetTaskStatus(objs[h].id)
                  IN  /\ s # NotFound
                      /\ s.error = objs[h].error
                      /\ s.retry_count = objs[h].retry_count
               /\ \A list \in GetTaskHistory(DefaultLimit) :
                     \E i \in DOMAIN list :
                         /\ list[i].id = objs[h].id
                         /\ list[i].error = objs[h].error
                         /\ "retry_count" \in DOMAIN list[i]
                         /\ list[i].retry_count = objs[h].retry_count

\* C23: get_queue_stats returns the number of queued tasks, the number of
\* registry entries, the number of scheduled entries, the number of pool
\* workers (num_workers while running, 0 after stop) and the running flag.
QueueStatsAccurate ==
    /\ GetQueueStats.queue_size = Cardinality(Queued)
    /\ GetQueueStats.total_tasks = Cardinality({objs[h].id : h \in Handles})
    /\ GetQueueStats.scheduled_tasks
          = Cardinality({entries[e].id : e \in DOMAIN entries})
    /\ GetQueueStats.workers = IF is_running THEN num_workers ELSE 0
    /\ GetQueueStats.is_running = is_running

\* The limits callers pass: counts of records.
LimitChoices == 0 .. MaxLimit
\* The ids of the rows a returned list holds.
Listed(list) == {list[i].id : i \in DOMAIN list}

\* C24: every list get_task_history(limit) may return has at most limit
\* entries, no row twice, is ordered by completed_at descending, and holds the
\* limit most recently completed rows of the table: all rows when there are no
\* more than limit, and otherwise no row left out completed later than a row
\* listed.
HistoryMostRecent ==
    \A limit \in LimitChoices :
        /\ GetTaskHistory(limit) # {}
        /\ \A list \in GetTaskHistory(limit) :
              /\ Len(list) <= limit
              /\ Len(list) = IF Cardinality(DOMAIN history) < limit
                             THEN Cardinality(DOMAIN history) ELSE limit
              /\ Cardinality(Listed(list)) = Len(list)
              /\ \A i \in DOMAIN list :
                    /\ list[i].id \in DOMAIN history
                    /\ list[i].completed_at = history[list[i].id].completed_at
                    /\ list[i].status = history[list[i].id].status
              /\ \A i, j \in DOMAIN list :
                    i < j => list[i].completed_at >= list[j].completed_at
              /\ \A k \in DOMAIN history \ Listed(list) :
                    \A i \in DOMAIN list :
                        history[k].completed_at <= list[i].completed_at

\* C24 witness: the table holds two rows, the task submitted second completed
\* later than the first, and get_task_history(1) returns the second alone.
HistoryMostRecentWitness ==
    /\ Len(objs) = 2
    /\ DOMAIN history = {objs[1].id, objs[2].id}
    /\ history[objs[1].id].completed_at < history[objs[2].id].completed_at
    /\ \A list \in GetTaskHistory(1) :
          Len(list) = 1 /\ list[1].id = objs[2].id

\* C25: once the flag is cleared no unit of work is started, the loop
\* terminates, a sleep of the interval wait is never longer than 60 s, and
\* the flag is tested after each of them: with the flag cleared the inner
\* loop is left at its next test.
CancellationHonoured ==
    /\ [][/\ ~crawler.running
             => /\ ~crawler'.running
                /\ crawler'.cycle = crawler.cycle
                /\ crawler'.pc # "crawl" \/ crawler.pc = "crawl"
          /\ crawler.pc = "chunk" => crawler'.pc \in {"chunk", "interval"}
          /\ (crawler.pc = "interval" /\ ~crawler.running)
                => crawler'.pc = "while"]_vars
    /\ [](crawler.pc = "chunk"
            => crawler.arg > 0 /\ crawler.arg <= SleepChunk)
    /\ ~crawler.running ~> crawler.pc = "stopped"

\* C25 witness: the loop has terminated after a signal that arrived during
\* the cooldown sleep.
CancellationHonouredWitness ==
    /\ crawler.pc = "stopped"
    /\ crawler.flagged = "cooldown"

\* C26: the loop is in the cooldown sleep only with the consecutive-error
\* counter above max_consecutive_errors; when the cooldown ends the counter is
\* 0 and the loop is at its test, from where it starts a unit of work unless
\* the flag is cleared; the loop is left only with the flag cleared; a unit
\* of work that succeeds sets the counter to 0.
CooldownDeescalates ==
    /\ [](crawler.pc = "cooldown"
            => crawler.consecutive_errors > max_consecutive_errors)
    /\ [][/\ (crawler.pc = "cooldown" /\ crawler'.pc # "cooldown")
                => crawler'.pc = "while" /\ crawler'.consecutive_errors = 0
          /\ (crawler.pc = "while" /\ crawler.running
              /\ crawler'.pc \notin {"while", "crawl"}) => FALSE
          /\ crawler'.pc = "stopped" => ~crawler.running
          /\ (crawler.pc = "crawl" /\ crawler'.pc = "interval")
                => crawler'.consecutive_errors = 0]_vars

\* The steps in which the except clause of line 118 is entered.
ErrorCaught ==
    /\ crawler.pc \in {"crawl", "interval"}
    /\ crawler'.consecutive_errors = crawler.consecutive_errors + 1

\* C27: an error that brings the counter to e below max_consecutive_errors is
\* followed by a sleep of min(300, 30 * 2^e) that ends before the next unit of
\* work starts; the backoff is non-decreasing in e and never above the cap.
BackoffCapped ==
    /\ [][/\ (ErrorCaught
              /\ crawler'.consecutive_errors < max_consecutive_errors)
                => /\ crawler'.pc = "backoff"
                   /\ crawler'.arg =
                         Min(BackoffCap,
                             BackoffBase * Pow2(crawler'.consecutive_errors))
          /\ crawler.pc = "backoff"
                => /\ crawler'.pc \in {"backoff", "while"}
                   /\ crawler'.cycle = crawler.cycle
                   /\ crawler'.arg = crawler.arg]_vars
    /\ [](\A e \in 0 .. max_consecutive_errors :
             Backoff(e) <= Backoff(e + 1) /\ Backoff(e) <= BackoffCap)

\* C27 witness: the fourth consecutive unit of work failed and the loop is in
\* its backoff sleep, of the cap's length.
BackoffCappedWitness ==
    /\ crawler.pc = "backoff"
    /\ crawler.cycle = 4
    /\ crawler.consecutive_errors = 4
    /\ crawler.arg = BackoffCap
    /\ BackoffBase * Pow2(4) > BackoffCap

\* The submit calls made for entry e that have returned.
Returned(e) ==
    {k \in DOMAIN entries[e].submitted :
        entries[e].submitted[k].task \notin putting}
\* The scheduler is between the submit call for entry e and line 349.
InHand(e) == \E t \in SchedulerAt("put") : Head(t.todo) = e
\* The name the claim gives the next run of an entry.
NameOfRun(entry) == entry.name \o "_run_" \o ToString(entry.run_count + 1)

Holders(h) == {t \in Live : t.kind = "worker" /\ t.task = h}
\* Task h has been dequeued and its execution has not ended.
InFlight(h) ==
    /\ h \notin Queued
    /\ h \notin putting
    /\ objs[h].saved = 0

WorkerAt(h, pc) == \E t \in WorkersAt(pc) : t.task = h

\* C30: the failure that raises retry_count to k <= max_retries is followed by
\* one time.sleep(2^k), after which the job is invoked again; the failure that
\* raises retry_count above max_retries is followed by no sleep: the task is
\* Failed and its loop is left; so the sleeps of a task are 2, 4, 8, ...
\* without a cap, one per retry.
RetryBackoff ==
    /\ [][\A h \in Handles :
             /\ (h \in DOMAIN objs' /\ JobRaised(h))
                   => LET k == objs'[h].retry_count
                      IN  IF k <= objs[h].max_retries
                          THEN /\ objs'[h].waits = Append(objs[h].waits, Pow2(k))
                               /\ \E t \in BagToSet(threads') :
                                     t.pc = "sleep" /\ t.task = h
                          ELSE /\ objs'[h].waits = objs[h].waits
                               /\ objs'[h].status = "failed"
                               /\ \E t \in BagToSet(threads') :
                                     t.pc = "finish" /\ t.task = h
             /\ (h \in DOMAIN objs' /\ ~JobRaised(h))
                   => objs'[h].waits = objs[h].waits
             /\ WorkerAt(h, "sleep")
                   => \E t \in BagToSet(threads') :
                         t.task = h /\ t.pc \in {"sleep", "call"}]_vars
    /\ [](\A h \in Handles :
             /\ \A i \in DOMAIN objs[h].waits : objs[h].waits[i] = Pow2(i)
             /\ Len(objs[h].waits)
                   = IF objs[h].retry_count <= objs[h].max_retries
                     THEN objs[h].retry_count
                     ELSE IF objs[h].max_retries >= 0 THEN objs[h].max_retries
                     ELSE 0
             /\ WorkerAt(h, "call") => objs[h].calls = Len(objs[h].waits))

\* C30 witness: a task with max_retries = 3 ended Failed after four
\* invocations and sleeps of 2, 4 and 8.
RetryBackoffWitness ==
    \E h \in Handles :
        /\ objs[h].max_retries = 3
        /\ objs[h].status = "failed"
        /\ objs[h].calls = 4
        /\ objs[h].waits = <<2, 4, 8>>

\* Task h is Running in the hands of a worker: in an attempt or in a backoff
\* sleep.
RunningHeld(h) ==
    /\ h \in Handles
    /\ objs[h].status = "running"
    /\ \E t \in Holders(h) : t.pc \in {"stamp", "call", "sleep"}
\* Task h has ended and its history row has been written.
Ended(h) ==
    /\ h \in Handles
    /\ objs[h].status \in {"completed", "failed"}
    /\ objs[h].saved = 1
    /\ history[objs[h].id] = Row(objs[h])

\* C31: a task that is Running in a worker's hands while the shutdown event is
\* set is carried on to Completed or Failed and its history row is written;
\* the worker holding a task leaves the pool only from its loop test, after
\* the row is written; and the steps of stop() change no task, no history row
\* and no thread.
ShutdownKeepsInFlight ==
    /\ \A h \in 1 .. MaxStopTasks :
          (shutdown_event /\ RunningHeld(h)) ~> Ended(h)
    /\ [][/\ \A h \in Handles :
                (InFlight(h) /\ Holders(h) # {})
                    => \/ \E u \in BagToSet(threads') :
                             u.kind = "worker" /\ u.task = h
                       \/ Ended(h)'
          /\ BagCardinality(threads') < BagCardinality(threads)
                => \E t \in Live :
                      /\ t.pc = "loop" /\ t.task = 0
                      /\ threads' = threads (-) SetToBag({t})
          /\ stopping' # stopping
                => /\ objs' = objs
                   /\ history' = history
                   /\ threads' = threads
                   /\ task_queue' = task_queue]_vars

\* C31 witness: stop() has returned while the worker is in the backoff sleep
\* of a task that failed once; the task is still Running.
ShutdownKeepsInFlightWitness ==
    /\ shutdown_event
    /\ stopping = "no"
    /\ ~is_running
    /\ \E t \in WorkersAt("sleep") :
          /\ objs[t.task].status = "running"
          /\ objs[t.task].retry_count = 1
          /\ objs[t.task].saved = 0

\* The fields of a Task object the worker writes.
Fields(task) ==
    [status |-> task.status, result |-> task.result, error |-> task.error,
     started_at |-> task.started_at, completed_at |-> task.completed_at,
     retry_count |-> task.retry_count]
\* A step of the worker thread t on the task h it dequeued.
StepOf(t, h) ==
    /\ t.kind = "worker"
    /\ t.task = h
    /\ t.pc \in {"run", "stamp", "call", "finish"}
    /\ \E pc \in {"stamp", "call", "sleep", "finish", "save"} :
          threads' = Replace(t, Thread("worker", pc, h))

\* C32: the fields of an existing task change only in a step of the worker
\* thread that dequeued it, and no step changes the registry entry of an
\* existing task's id.
TaskOwnership ==
    [][\A h \in Handles :
          /\ Fields(objs'[h]) # Fields(objs[h])
                => \E t \in Live : StepOf(t, h)
          /\ objs'[h].id = objs[h].id
          /\ objs[h].id \in DOMAIN tasks'
          /\ tasks'[objs[h].id] = tasks[objs[h].id]]_vars


\* C33: every row of the history table has status Completed or Failed and a
\* completed_at, whatever max_retries the task was submitted with.
HistoryTerminal ==
    \A k \in DOMAIN history :
        /\ history[k].status \in {"completed", "failed"}
        /\ history[k].completed_at # NULL

\* The live worker threads, and the tasks whose status is Running.
WorkerBag ==
    [t \in {u \in Live : u.kind = "worker"} |-> CopiesIn(t, threads)]
RunningTasks == {h \in Handles : objs[h].status = "running"}

\* C34: at most num_workers tasks are Running and at most num_workers worker
\* threads are alive.
RunningBound ==
    /\ Cardinality(RunningTasks) <= num_workers
    /\ BagCardinality(WorkerBag) <= num_workers

\* A step in which task h moves from Pending to Running.
Begun(h) == objs[h].status = "pending" /\ objs'[h].status = "running"
\* Number of worker threads that have passed the loop test of line 311 and
\* have not yet begun a task: in the timed get, or holding what it returned.
Armed ==
    BagCardinality([t \in {u \in Live : u.kind = "worker"
                                        /\ u.pc \in {"get", "run"}}
                       |-> CopiesIn(t, threads)])

\* C35 as stated: while the shutdown event is set no task moves from Pending
\* to Running.
NoNewWorkAfterSignal ==
    [][shutdown_event => \A h \in Handles : ~Begun(h)]_vars

\* C35 amended: while the shutdown event is set no worker passes its loop
\* test, and a task moves from Pending to Running only in the hands of a
\* worker that had passed the test before: each such move uses up one of
\* those workers.
NoNewWorkAfterTest ==
    [][(shutdown_event /\ shutdown_event')
          => /\ Armed' <= Armed
             /\ \A h \in Handles :
                   Begun(h)
                       => /\ Armed' = Armed - 1
                          /\ \E t \in WorkersAt("run") :
                                /\ t.task = h
                                /\ threads' =
                                      Replace(t, Thread("worker", "stamp", h))]_vars

\* C35 witness: stop() has returned with the shutdown event set, and the
\* worker, which had passed its loop test, holds a Pending task that its
\* timed get returned.
NoNewWorkAfterTestWitness ==
    /\ shutdown_event
    /\ ~is_running
    /\ stopping = "no"
    /\ num_workers = 1
    /\ \E t \in WorkersAt("run") : objs[t.task].status = "pending"

\* C36: the steps of stop() change neither the queue, the registry, the
\* scheduled-task map nor any task; a task in the queue is Pending and leaves
\* the queue only into the hands of a worker; a start() that spawns clears
\* the shutdown event and adds num_workers workers; and a task that is queued while
\* the orchestrator runs with the shutdown event clear (after a start() that
\* followed a stop() too) is executed and recorded, unless another stop()
\* sets the event while it is still queued.
StopPreservesPending ==
    /\ [][/\ stopping' # stopping
                => /\ task_queue' = task_queue
                   /\ putting' = putting
                   /\ tasks' = tasks
                   /\ objs' = objs
                   /\ scheduled_tasks' = scheduled_tasks
                   /\ entries' = entries
          /\ \A h \in Queued :
                /\ objs[h].status = "pending"
                /\ h \notin Range(task_queue')
                      => \E u \in BagToSet(threads') :
                            u.kind = "worker" /\ u.pc = "run" /\ u.task = h
          /\ starts' > starts
                => /\ ~shutdown_event'
                   /\ BagCardinality(WorkerBag')
                         = BagCardinality(WorkerBag) + num_workers
                   /\ task_queue' = task_queue]_vars
    /\ \A h \in 1 .. MaxResumeTasks :
          (h \in Queued /\ is_running /\ ~shutdown_event)
              ~> (Ended(h) \/ (h \in Queued /\ shutdown_event))

\* C36 witness: after a stop() that returned, a second start() has spawned a
\* pool; the worker of the first pool has exited, and the task, Pending until
\* now, is in the hands of the only live worker.
StopPreservesPendingWitness ==
    /\ starts = 2
    /\ is_running
    /\ ~shutdown_event
    /\ stopping = "no"
    /\ BagCardinality(WorkerBag) = 1
    /\ \E t \in WorkersAt("run") : objs[t.task].status = "pending"

\* C37: every snapshot get_task_status returns with status Completed or
\* Failed has a completed_at, and every snapshot whose status is not Pending
\* has a started_at.
SnapshotConsistent ==
    \A id \in IdSpace :
        LET s == GetTaskStatus(id)
        IN  s # NotFound
                => /\ s.status \in {"completed", "failed"}
                         => s.completed_at # NULL
                   /\ s.status # "pending" => s.started_at # NULL


\* A call of submit for a task that is served no later than h (its priority
\* ordinal is not larger) is under way.
RivalArrives(h) ==
    /\ h \in Handles
    /\ \E g \in putting : g # h /\ objs[g].priority <= objs[h].priority

\* Task h has been executed to its end and its history row is written: it
\* is Completed or Failed, unless its max_retries is negative (C33).
Recorded(h) ==
    /\ h \in Handles
    /\ objs[h].saved = 1
    /\ objs[h].completed_at # NULL
    /\ objs[h].max_retries >= 0 => objs[h].status \in {"completed", "failed"}

\* C38 as stated: while the orchestrator is running, every task in the queue
\* is eventually executed to its end, Completed or Failed, and recorded.
NoStarvation ==
    \A h \in 1 .. MaxStarveTasks :
        (h \in Queued /\ is_running) ~> Recorded(h)

\* C38 amended: while the orchestrator is running, every task in the queue
\* is eventually executed to its end, Completed or Failed, and recorded,
\* unless submit is called again for a task of higher or equal priority:
\* tasks of lower priority, however many, do not hold it up.
NoStarvationByLower ==
    \A h \in 1 .. MaxStarveTasks :
        (h \in Queued /\ is_running) ~> (Recorded(h) \/ RivalArrives(h))

\* C38 witness: a High task has ended (the last history row is its) while a
\* Low task submitted before it is still queued, and a further Low task is
\* being submitted.
NoStarvationByLowerWitness ==
    /\ Len(objs) = 2
    /\ objs[1].priority = LOW /\ 1 \in Queued
    /\ objs[1].id \in DOMAIN history
    /\ history[objs[1].id].priority = HIGH
    /\ history[objs[1].id].status = "completed"
    /\ objs[2].priority = LOW /\ 2 \in putting


\* C39: once stop() has set the shutdown event, the scheduler thread
\* eventually leaves its loop (the thread ends), or start() has cleared the
\* event again.
SchedulerLeaves ==
    (shutdown_event /\ SchedulerAt("loop") \cup SchedulerAt("submit")
                       \cup SchedulerAt("put") \cup SchedulerAt("sleep") # {})
        ~> (~shutdown_event \/ \A t \in Live : t.kind # "scheduler")

\* The checks i .. j of ev are the beginning of a failure streak.
StreakFrom(ev, i, j) ==
    /\ i <= j
    /\ \A k \in i .. j : ~ev[k].healthy
    /\ i = 1 \/ ev[i - 1].healthy
\* Number of the checks i .. j of ev that tried to spawn the restart command,
\* whether Popen returned or raised.
Attempts(ev, i, j) ==
    Cardinality({k \in i .. j : ev[k].did \in {"restarted", "spawn_failed"}})

\* C40: within a failure streak of a service with a restart action, at most
\* MAX_RESTART_ATTEMPTS checks try to spawn the restart command, whether the
\* spawn succeeds or raises, and the check after MAX_RESTART_ATTEMPTS
\* unhealthy ones emits the escalation.
AttemptsBounded ==
    \A s \in DOMAIN services :
        \A i, j \in DOMAIN events[s] :
            (services[s].restart_cmd /\ StreakFrom(events[s], i, j))
                => /\ Attempts(events[s], i, j) <= MAX_RESTART_ATTEMPTS
                   /\ j - i >= MAX_RESTART_ATTEMPTS
                         => events[s][i + MAX_RESTART_ATTEMPTS].did = "escalated"
====
